---- MODULE Spec2Model ----
(***************************************************************************)
(* A model of ppropt.py: the density-ordered round scheduler of            *)
(* PRO._load_molecule, the round-synchronous pool of PRO.optimise and the  *)
(* per-residue task optimise_substructure.                                 *)
(***************************************************************************)
EXTENDS Integers, Sequences, FiniteSets, TLC

\* Largest structure (number of residues) the scheduler is explored on.
MaxResidues == 3

\* Largest structure the whole run (scheduler, pool, commit, log) is explored on.
MaxRunResidues == 2

\* The size of the worker pool (--cpu).  A pool of MaxCpu workers also runs its
\* tasks one at a time or a few at a time, as every smaller pool does.
MaxCpu == 2

\* Density scores a residue may have (the code computes a float per residue;
\* only the order and the ties matter to the scheduler).
DensityScores == {3, 4, 5}

\* The density scores explored by the whole run: a tie or a strict order between
\* any two residues.
RunDensityScores == {3, 5}

\* Most near residues of the target of the single task looked into atom by atom.
MaxNear == 2

\* Most atom lines obabel adds to the fragment of that task.
MaxAdded == 1

\* Line 71: a near residue is taken when its least distance is below 6.
MemberCutoff == 6

\* Line 74: an atom further than 4 from the target is held in place.
FreeCutoff == 4

\* Lines 102 and 104: the cutoff 1.1, in tenths (distances of added atoms to C
\* and N are in tenths).
BondCutoff == 11

\* The distances of an atom of a near residue to the target: at the cutoff of
\* line 74, between the two cutoffs, at the cutoff of line 71.
AtomDistances == {4, 5, 6}

\* The distances, in tenths, of an added atom to C and to N of its residue:
\* below the cutoff of lines 102-104 and at it.
BondDistances == {10, 11}

\* The deviations, in tenths, a relaxed target residue may have from its input.
Deviations == {3, 10, 15}

\* The atoms of a near residue: its alpha-carbon and one atom of its side chain.
AtomNames == <<"CA", "CB">>

VARIABLES
    n,                \* len(self.residues); residues are numbered 1..n
    density,          \* self.density_of_atoms_around_residues
    nearest,          \* self.nearest_residues
    cpu,              \* self.cpu
    pc,               \* position of the main process in optimise()
    unsorted_residues,\* _load_molecule: residues not yet placed, in structure order
    already_sorted,   \* _load_molecule: already_sorted flags
    sorted_residues,  \* the plan: a sequence of rounds, each a sequence of residues
    coords,           \* the main process's Structure: residue -> its atoms' coordinates
    within6,          \* geometry: the pairs of residues closer than 6 to each other
    round_no,         \* optimise: index of the round the for loop is at
    queue,            \* the pool's task queue: tasks of the round not yet taken
    stage,            \* per task (target residue): how far optimise_substructure is
    snapshot,         \* per task: the pickled copy of the Structure it works on
    substructure,     \* per task: substructure_residues (indices, in order)
    settings_file,    \* per task: the text of sub_<i>/xtb_settings.inp
    scratch,          \* per i: the tasks that made and use the directory sub_<i>
    artifact,         \* per i: the task whose xtb wrote sub_<i>/xtbopt.pdb (0: no file)
    invocations,      \* per task: the xtb runs so far (engine read, artifact after)
    result,           \* per task: what optimise_substructure returned
    logs,             \* optimise: the list logs
    ci,               \* optimise: position of the commit loop in the round's results
    residues_logs,    \* the text written to residues.logs (a sequence of entries)
    PDB_file,         \* what --PDB_file names: no file, a file without chain A, a structure
    data_dir_exists,  \* whether --data_dir existed when the program was started
    created,          \* the paths the program has made under --data_dir
    near_atoms,       \* one task: per near residue, in order, its atoms (name, distance)
    substructure_residues,    \* one task: the list of lines 63-79
    constrained_atom_indices, \* one task: the list of lines 65-76
    counter_atoms,            \* one task: the counter of lines 66-77
    added_atoms,              \* one task: the added atom lines gone through (99-107)
    added_hydrogen_indices,   \* one task: the list of lines 97-107
    hydrogens_counter,        \* one task: the counter of lines 98-106
    xtbopt,                   \* one task: what the xtb runs left (file, deviation)
    category,                 \* one task: the category of lines 136-150
    last_returned     \* observed: the task whose return ended the round's map (0: none yet)

schedVars == <<n, density, nearest, cpu, unsorted_residues, already_sorted,
               sorted_residues>>

poolVars == <<queue, stage, snapshot, substructure, settings_file, scratch,
              artifact, invocations, result>>

mainVars == <<coords, within6, round_no, logs, ci, residues_logs>>

setupVars == <<PDB_file, data_dir_exists, created>>

taskVars == <<near_atoms, substructure_residues, constrained_atom_indices,
              counter_atoms, added_atoms, added_hydrogen_indices,
              hydrogens_counter, xtbopt, category>>

\* What an observer of the pool notes down; the program reads none of it.
historyVars == <<last_returned>>

vars == <<schedVars, pc, poolVars, mainVars, setupVars, taskVars, historyVars>>

Residues == 1..n

\* The residues of 1..k in structure order (list(self.structure.get_residues())).
StructureOrder(k) == [i \in 1..k |-> i]

\* The elements of a sequence.
Range(s) == {s[i] : i \in DOMAIN s}

----------------------------------------------------------------------------
(* load_arguments, PRO._prepare_directory and the head of                  *)
(* PRO._load_molecule: what runs before the structure is there.            *)

\* Lines 208-211: the directories made and the file copied by
\* _prepare_directory.
DataDirPaths ==
    {"data_dir", "data_dir/inputed_PDB", "data_dir/optimised_PDB",
     "data_dir/inputed_PDB/PDB_file"}

\* Lines 14-31: load_arguments exits when --PDB_file names no file.
LoadArguments ==
    /\ pc = "args"
    /\ pc' = IF PDB_file = "missing" THEN "exit" ELSE "prepare"
    /\ UNCHANGED <<schedVars, poolVars, mainVars, setupVars, taskVars,
                   historyVars>>

\* Lines 203-212: _prepare_directory exits when --data_dir exists, and makes
\* the directories and copies the input otherwise.
PrepareDirectory ==
    /\ pc = "prepare"
    /\ IF data_dir_exists
       THEN pc' = "exit" /\ UNCHANGED created
       ELSE pc' = "load" /\ created' = created \cup DataDirPaths
    /\ UNCHANGED <<schedVars, poolVars, mainVars, PDB_file, data_dir_exists,
                   taskVars,
                   historyVars>>

\* Lines 214-272: _load_molecule exits at the KeyError of a file without chain
\* A, and goes on to the lists of lines 270-272 otherwise.
LoadMolecule ==
    /\ pc = "load"
    /\ pc' = IF PDB_file = "no chain" THEN "exit" ELSE "schedule"
    /\ UNCHANGED <<schedVars, poolVars, mainVars, setupVars, taskVars,
                   historyVars>>

----------------------------------------------------------------------------
(* PRO._load_molecule, lines 270-289: the peeling loop.                    *)

\* Eligible with the density comparison of line 281 turned round.
EligibleLooserFirst(res) ==
    \A near_residue \in nearest[res] :
        \/ res = near_residue
        \/ already_sorted[near_residue]
        \/ ~(density[near_residue] < density[res])

\* Eligible with line 281 also breaking at a neighbour of equal density.
EligibleTiesWait(res) ==
    \A near_residue \in nearest[res] :
        \/ res = near_residue
        \/ already_sorted[near_residue]
        \/ ~(density[near_residue] >= density[res])

\* Lines 276-284, the for/else over the neighbours of res: res joins the round
\* unless the scan breaks, which it does at a neighbour other than res itself
\* that is not yet marked sorted and has a strictly greater density.
Eligible(res) ==
    \A near_residue \in nearest[res] :
        \/ res = near_residue
        \/ already_sorted[near_residue]
        \/ ~(density[near_residue] > density[res])

\* RoundResidues with already_sorted updated while the pass is scanning: a
\* residue counts as sorted the moment it is taken.
RoundResiduesMarkedAtOnce ==
    LET RECURSIVE MarkedAtOnce(_, _)
        MarkedAtOnce(todo, taken) ==
            IF Len(todo) = 0
            THEN taken
            ELSE LET res == Head(todo)
                     joins == \A near_residue \in nearest[res] :
                                 \/ res = near_residue
                                 \/ already_sorted[near_residue]
                                 \/ near_residue \in Range(taken)
                                 \/ ~(density[near_residue] > density[res])
                 IN MarkedAtOnce(Tail(todo),
                                 IF joins THEN Append(taken, res) ELSE taken)
    IN MarkedAtOnce(unsorted_residues, <<>>)

\* RoundResidues with the scan stopped at the first residue it takes.
FirstEligibleOnly ==
    SubSeq(SelectSeq(unsorted_residues, Eligible), 1, 1)

\* Lines 274-284: one scan of unsorted_residues, in list order.
RoundResidues == SelectSeq(unsorted_residues, Eligible)

\* Remaining with only the first residue of the round removed.
RemainingButFirst(round_residues) ==
    SelectSeq(unsorted_residues,
              LAMBDA res : Len(round_residues) = 0 \/ res # round_residues[1])

\* Lines 285-286: unsorted_residues after the residues of the round are removed.
Remaining(round_residues) ==
    SelectSeq(unsorted_residues, LAMBDA res : res \notin Range(round_residues))

\* Lines 273-288: one pass of the while loop.
SchedulePass ==
    /\ pc = "schedule"
    /\ Len(unsorted_residues) > 0
    /\ LET round_residues == RoundResidues
       IN /\ unsorted_residues' = Remaining(round_residues)
          /\ already_sorted' =
                [r \in Residues |->
                    already_sorted[r] \/ r \in Range(round_residues)]
          /\ sorted_residues' = Append(sorted_residues, round_residues)
    /\ UNCHANGED <<n, density, nearest, cpu, pc, poolVars, mainVars, setupVars,
                   taskVars,
                   historyVars>>

\* Lines 273 and 289: the loop ends when nothing is left unsorted.
FinishSchedule ==
    /\ pc = "schedule"
    /\ Len(unsorted_residues) = 0
    /\ pc' = "rounds"
    /\ UNCHANGED <<schedVars, poolVars, mainVars, setupVars, taskVars,
                   historyVars>>

----------------------------------------------------------------------------
(* Text: a string is the sequence of its characters.                       *)

\* str() of a natural number, in decimal.
Digit(d) == <<"0", "1", "2", "3", "4", "5", "6", "7", "8", "9">>[d + 1]

RECURSIVE Str(_)
Str(i) == IF i < 10 THEN <<Digit(i)>> ELSE Str(i \div 10) \o <<Digit(i % 10)>>

\* sep.join(items): items is a sequence of strings.
RECURSIVE Join(_, _)
Join(sep, items) ==
    IF Len(items) = 0 THEN <<>>
    ELSE IF Len(items) = 1 THEN items[1]
    ELSE items[1] \o sep \o Join(sep, Tail(items))

\* The positions at which pattern occurs in text.
Occurrences(text, pattern) ==
    {i \in 1..(Len(text) - Len(pattern) + 1) :
        /\ text[i] = pattern[1]
        /\ SubSeq(text, i, i + Len(pattern) - 1) = pattern}

\* The least element of a non-empty set of numbers.
Least(S) == CHOOSE i \in S : \A j \in S : i <= j

\* text.replace(old, new): every occurrence of old, found left to right, the
\* search resuming after each occurrence replaced.
StrReplace(text, old, new) ==
    LET at == Occurrences(text, old)
        RECURSIVE From(_)
        From(i) ==
            LET ahead == {j \in at : j >= i}
            IN IF ahead = {} THEN SubSeq(text, i, Len(text))
               ELSE SubSeq(text, i, Least(ahead) - 1) \o new
                    \o From(Least(ahead) + Len(old))
    IN From(1)

\* The text from position i up to the end of its line.
RestOfLine(text, i) ==
    LET ends == {j \in i..Len(text) : text[j] = "\n"}
    IN IF ends = {} THEN SubSeq(text, i, Len(text))
       ELSE SubSeq(text, i, Least(ends) - 1)

Indent == <<" ", " ", " ", " ">>
CommaSpace == <<",", " ">>
Placeholder == <<"x", "x", "x">>
EngineKey == <<"e", "n", "g", "i", "n", "e", "=">>
Rf == <<"r", "f">>
Lbfgs == <<"l", "b", "f", "g", "s">>

\* Lines 111-113: the template up to the placeholder of the atoms.
ConstrainHead ==
    <<"$", "c", "o", "n", "s", "t", "r", "a", "i", "n", "\n">>
    \o Indent \o <<"a", "t", "o", "m", "s", ":", " ">>

\* Lines 113-117: the template between the placeholder and the engine's name.
ConstrainToEngine ==
    <<"\n">>
    \o Indent \o <<"f", "o", "r", "c", "e", " ", "c", "o", "n", "s", "t", "a",
                   "n", "t", "=", "1", ".", "0", "\n">>
    \o Indent \o <<"$", "e", "n", "d", "\n">>
    \o Indent \o <<"$", "o", "p", "t", "\n">>
    \o Indent \o EngineKey

\* Lines 117-119: the template after the engine's name.
OptTail ==
    <<"\n">>
    \o Indent \o <<"$", "e", "n", "d", "\n">>
    \o Indent

\* Lines 111-118: xtb_settings_template.
xtb_settings_template ==
    ConstrainHead \o Placeholder \o ConstrainToEngine \o Rf \o OptTail

\* What xtb reads from the $opt block of its input: the value of engine=.
EngineOf(text) ==
    LET at == Occurrences(text, EngineKey)
    IN IF at = {} THEN <<>>
       ELSE RestOfLine(text, Least(at) + Len(EngineKey))

----------------------------------------------------------------------------
(* optimise_substructure, lines 59-156: one task of the pool.              *)

\* sorted(S) for a set of residues: ascending residue order.
RECURSIVE SortedSeq(_)
SortedSeq(S) ==
    IF S = {} THEN <<>>
    ELSE <<Least(S)>> \o SortedSeq(S \ {Least(S)})

\* The pairs of distinct residues whose distance lines 67-70 can measure: one
\* of the two is among the other's neighbours.
Pairs ==
    UNION {{{a, b} : b \in nearest[a] \ {a}} : a \in Residues}

\* Lines 69-71: absolute_min_distance < 6 between the target and a residue.  A
\* residue is at distance 0 of itself.  Which residues are within 6 of each
\* other is taken not to change when relaxed coordinates are committed: the
\* alpha-carbons are held in place by the constraint (lines 74-76, 111-114).
IsNear(target, residue) ==
    residue = target \/ {target, residue} \in within6

\* Each residue is modelled by its alpha-carbon alone.
ResidueAtoms == <<"CA">>

\* IsConstrained without the test of the atom's name.
ConstrainedWhenFar(atom_name, atom_far) == atom_far

\* Line 74: the test that makes an atom a constrained one (atom_far stands for
\* atom_distance > 4).
IsConstrained(atom_name, atom_far) == atom_name = "CA" \/ atom_far

\* Lines 67-79: substructure_residues, as residue indices.
SubstructureResidues(target) ==
    SelectSeq(SortedSeq(nearest[target]),
              LAMBDA residue : IsNear(target, residue))

\* Lines 66, 72-77: constrained_atom_indices, counted from 1 over the atoms of
\* the member residues in order.
ConstrainedAtomIndices(members) ==
    LET k == Len(ResidueAtoms)
        atom_name(c) == ResidueAtoms[((c - 1) % k) + 1]
    IN SelectSeq([c \in 1..(Len(members) * k) |-> c],
                 LAMBDA c : IsConstrained(atom_name(c), FALSE))

\* Lines 119-120: the text put for the placeholder; no added hydrogen is
\* retained for a structure of alpha-carbons, so added_hydrogen_indices is
\* empty.
AtomsText(members) ==
    LET indices == ConstrainedAtomIndices(members)
        constrained == [i \in DOMAIN indices |-> Str(indices[i])]
        added == <<>>
    IN Join(CommaSpace, constrained) \o CommaSpace \o Join(CommaSpace, added)

\* Line 119: substructure_settings.
SubstructureSettings(members) ==
    StrReplace(xtb_settings_template, Placeholder, AtomsText(members))

\* PickledStructure as a copy made before the first round: the input's.
PickledAtPoolStart == [r \in Residues |-> 0]

\* Line 183: the Structure pickled with a task is the main process's, as it is
\* while starmap runs.
PickledStructure == coords

\* SubstructureDataDir with one directory for all the tasks.
SharedDataDir(t) == 1

\* Line 80: substructure_data_dir is sub_<optimised_residue_index>; the
\* directory sub_<i> is named by i.
SubstructureDataDir(t) == t

\* The tasks a worker process is busy with.
Busy == {t \in Residues : stage[t] \in {"xtb", "retry"}}

\* A worker of the pool takes the next task of the queue and runs lines 59-122
\* on the copy of the Structure pickled with the task; line 81 makes the
\* task's directory.
TaskStart ==
    /\ pc = "map"
    /\ Len(queue) > 0
    /\ Cardinality(Busy) < cpu
    /\ LET t == Head(queue)
           members == SubstructureResidues(t)
       IN /\ queue' = Tail(queue)
          /\ snapshot' = [snapshot EXCEPT ![t] = PickledStructure]
          /\ substructure' = [substructure EXCEPT ![t] = members]
          /\ settings_file' =
                [settings_file EXCEPT ![t] = SubstructureSettings(members)]
          /\ scratch' = [scratch EXCEPT
                            ![SubstructureDataDir(t)] = @ \cup {t}]
          /\ invocations' = [invocations EXCEPT ![t] = <<>>]
          /\ stage' = [stage EXCEPT ![t] = "xtb"]
    /\ UNCHANGED <<schedVars, pc, artifact, result, mainVars, setupVars,
                   taskVars,
                   historyVars>>

\* TaskOutcome with the residues returned whether or not xtbopt.pdb is there.
TaskOutcomeKeepsResidues(t, found) ==
    [category |-> IF found THEN "Optimised residue" ELSE "Not optimised residue",
     has_residues |-> TRUE,
     residues |-> [i \in DOMAIN substructure[t] |->
                     [index |-> substructure[t][i], coordinates |-> t]]]

\* Lines 136-151: the category and the residues returned.  The coordinates a
\* task returns are named after the task that computed them.
TaskOutcome(t, found) ==
    IF found
    THEN [category |-> "Optimised residue",
          has_residues |-> TRUE,
          residues |-> [i \in DOMAIN substructure[t] |->
                          [index |-> substructure[t][i], coordinates |-> t]]]
    ELSE [category |-> "Not optimised residue",
          has_residues |-> FALSE,
          residues |-> <<>>]

\* Lines 136-156: what the task returns, its log and its residues.
Returned(t, found) ==
    LET outcome == TaskOutcome(t, found)
    IN [log |-> [residue_index |-> t, category |-> outcome.category],
        has_residues |-> outcome.has_residues,
        residues |-> outcome.residues]

\* Lines 123-129: one run of xtb on the settings file as it is: the engine xtb
\* reads from it, and whether xtbopt.pdb is there when the run is over.
XtbRun(text, found) == [engine |-> EngineOf(text), found |-> found]

\* Lines 130 and 136: path.isfile(.../xtbopt.pdb) in the task's directory, after
\* a run of xtb that wrote the file or did not.
IsFile(t, produced) == produced \/ artifact[SubstructureDataDir(t)] # 0

\* The file xtbopt.pdb of the task's directory after a run of the task's xtb.
ArtifactAfter(t, produced) ==
    [artifact EXCEPT ![SubstructureDataDir(t)] = IF produced THEN t ELSE @]

\* Line 130: the retry is taken when xtbopt.pdb is not there.
NeedsRetry(found) == ~found

\* RetrySettings with the settings file left as it was.
RetrySettingsUnchanged(text) == text

\* Line 131: the settings of the second run.
RetrySettings(text) == StrReplace(text, Rf, Lbfgs)

\* Lines 129-133 and, when the artifact is there, 136-156: the first xtb run,
\* the test of its artifact, and then either the rewrite of the settings file
\* or the return of the task.  Whether xtb writes xtbopt.pdb is the tool's
\* answer.
RunXtb(t) ==
    /\ stage[t] = "xtb"
    /\ \E produced \in BOOLEAN :
        LET found == IsFile(t, produced)
        IN /\ invocations' = [invocations EXCEPT
                                ![t] = Append(@, XtbRun(settings_file[t], found))]
           /\ artifact' = ArtifactAfter(t, produced)
           /\ IF NeedsRetry(found)
              THEN /\ settings_file' =
                        [settings_file EXCEPT ![t] = RetrySettings(@)]
                   /\ stage' = [stage EXCEPT ![t] = "retry"]
                   /\ UNCHANGED result
              ELSE /\ result' = [result EXCEPT ![t] = Returned(t, found)]
                   /\ stage' = [stage EXCEPT ![t] = "returned"]
                   /\ UNCHANGED settings_file
    /\ UNCHANGED <<schedVars, pc, queue, snapshot, substructure, scratch,
                   mainVars, setupVars, taskVars>>

\* Lines 134-156: the second xtb run and the return of the task.
RetryXtb(t) ==
    /\ stage[t] = "retry"
    /\ \E produced \in BOOLEAN :
        LET found == IsFile(t, produced)
        IN /\ invocations' = [invocations EXCEPT
                                ![t] = Append(@, XtbRun(settings_file[t], found))]
           /\ artifact' = ArtifactAfter(t, produced)
           /\ result' = [result EXCEPT ![t] = Returned(t, found)]
    /\ stage' = [stage EXCEPT ![t] = "returned"]
    /\ UNCHANGED <<schedVars, pc, queue, snapshot, substructure, settings_file,
                   scratch, mainVars, setupVars, taskVars>>

----------------------------------------------------------------------------
(* optimise_substructure atom by atom: one task on a target whose near     *)
(* residues are near_atoms, numbered 1.. in their sorted order.            *)

\* Lines 69-70: absolute_min_distance of a near residue.
AbsoluteMinDistance(atoms) ==
    Least({atoms[j].atom_distance : j \in DOMAIN atoms})

\* Lines 72-77 for one residue taken: the positions, in the residue, of the
\* atoms appended to constrained_atoms.
ConstrainedPositions(atoms) ==
    SelectSeq([j \in DOMAIN atoms |-> j],
              LAMBDA j : IsConstrained(atoms[j].name,
                                       atoms[j].atom_distance > FreeCutoff))

\* Lines 63-79: the three values after the for loop has gone through the first
\* k near residues.
RECURSIVE Extraction(_)
Extraction(k) ==
    IF k = 0
    THEN [substructure_residues |-> <<>>,
          constrained_atom_indices |-> <<>>,
          counter_atoms |-> 1]
    ELSE LET before == Extraction(k - 1)
             atoms == near_atoms[k]
             positions == ConstrainedPositions(atoms)
         IN IF AbsoluteMinDistance(atoms) < MemberCutoff
            THEN [substructure_residues |->
                     Append(before.substructure_residues,
                            [index |-> k,
                             constrained_atoms |->
                                [i \in DOMAIN positions |->
                                    atoms[positions[i]]]]),
                  constrained_atom_indices |->
                     before.constrained_atom_indices
                     \o [i \in DOMAIN positions |->
                           before.counter_atoms + positions[i] - 1],
                  counter_atoms |-> before.counter_atoms + Len(atoms)]
            ELSE before

\* Lines 63-79: the substructure of the task is selected.
Extract ==
    /\ pc = "extract"
    /\ LET done == Extraction(Len(near_atoms))
       IN /\ substructure_residues' = done.substructure_residues
          /\ constrained_atom_indices' = done.constrained_atom_indices
          /\ counter_atoms' = done.counter_atoms
    /\ pc' = "protonate"
    /\ UNCHANGED <<schedVars, poolVars, mainVars, setupVars, historyVars,
                   near_atoms,
                   added_atoms, added_hydrogen_indices, hydrogens_counter,
                   xtbopt, category>>

\* Lines 80-98: the fragment is saved, obabel adds atoms to it, and the atom
\* lines after the first num_of_atoms are the added ones.
Protonate ==
    /\ pc = "protonate"
    /\ hydrogens_counter' = counter_atoms - 1
    /\ added_hydrogen_indices' = <<>>
    /\ added_atoms' = <<>>
    /\ pc' = "added"
    /\ UNCHANGED <<schedVars, poolVars, mainVars, setupVars, historyVars,
                   near_atoms,
                   substructure_residues, constrained_atom_indices,
                   counter_atoms, xtbopt, category>>

\* Lines 101-104: the test that keeps an added atom: closer than 1.1 to C or to
\* N of the residue its line names.
Retained(line) == line.c_dist < BondCutoff \/ line.n_dist < BondCutoff

\* Lines 99-107: one added atom line goes through the loop, and is written to
\* repaired_substructure.pdb or not.  The line names a residue of the fragment;
\* where obabel put the atom is the tool's answer.
AddedAtom ==
    /\ pc = "added"
    /\ Len(added_atoms) < MaxAdded
    /\ \E res_i \in {substructure_residues[i].index :
                        i \in DOMAIN substructure_residues},
          c_dist \in BondDistances, n_dist \in BondDistances :
          LET line == [res_i |-> res_i, c_dist |-> c_dist, n_dist |-> n_dist]
          IN /\ added_atoms' =
                   Append(added_atoms,
                          [line |-> line, written |-> Retained(line)])
             /\ IF Retained(line)
                THEN /\ hydrogens_counter' = hydrogens_counter + 1
                     /\ added_hydrogen_indices' =
                           Append(added_hydrogen_indices, hydrogens_counter + 1)
                ELSE UNCHANGED <<hydrogens_counter, added_hydrogen_indices>>
    /\ UNCHANGED <<schedVars, pc, poolVars, mainVars, setupVars, historyVars,
                   near_atoms,
                   substructure_residues, constrained_atom_indices,
                   counter_atoms, xtbopt, category>>

\* Lines 136-150: the category; the deviation of the relaxed residue is not
\* looked at.
Category(found, deviation) ==
    IF found THEN "Optimised residue" ELSE "Not optimised residue"

\* Lines 108-150: the settings are written, xtb runs (once or twice), and the
\* category is set by whether xtbopt.pdb is there.  Whether it is, and how far
\* the relaxed target lies from its input, is the tool's answer.
Classify ==
    /\ pc = "added"
    /\ \E found \in BOOLEAN :
          \E deviation \in IF found THEN Deviations ELSE {0} :
             /\ xtbopt' = [found |-> found, deviation |-> deviation]
             /\ category' = Category(found, deviation)
    /\ pc' = "logged"
    /\ UNCHANGED <<schedVars, poolVars, mainVars, setupVars, historyVars,
                   near_atoms,
                   substructure_residues, constrained_atom_indices,
                   counter_atoms, added_atoms, added_hydrogen_indices,
                   hydrogens_counter>>

----------------------------------------------------------------------------
(* PRO.optimise, lines 179-197: the rounds, the commit and the log.        *)

\* The round the for loop of line 182 is at.
CurrentRound ==
    IF round_no \in DOMAIN sorted_residues THEN sorted_residues[round_no] ELSE <<>>

\* Line 182-183: the next round's task list is built and handed to the pool.
StartRound ==
    /\ pc = "rounds"
    /\ round_no < Len(sorted_residues)
    /\ round_no' = round_no + 1
    /\ queue' = sorted_residues[round_no + 1]
    /\ stage' = [t \in Residues |->
                    IF t \in Range(sorted_residues[round_no + 1])
                    THEN "queued" ELSE stage[t]]
    /\ pc' = "map"
    /\ UNCHANGED <<schedVars, snapshot, substructure, settings_file, scratch,
                   artifact, invocations, result, coords, within6, logs, ci,
                   residues_logs, setupVars, taskVars>>

\* PoolDone as soon as every task has been handed to a worker.
PoolDispatched == Len(queue) = 0

\* Line 183: starmap returns once every task of the list has returned.
PoolDone ==
    /\ Len(queue) = 0
    /\ \A t \in Range(CurrentRound) : stage[t] = "returned"

MapReturns ==
    /\ pc = "map"
    /\ PoolDone
    /\ ci' = 1
    /\ pc' = IF Len(CurrentRound) = 0 THEN "rounds" ELSE "commit"
    /\ UNCHANGED <<schedVars, poolVars, coords, within6, round_no, logs,
                   residues_logs, setupVars, taskVars,
                   historyVars>>

\* Line 186: the truth value of optimised_residues (None and [] are false).
HasUpdate(res) == res.has_residues /\ Len(res.residues) > 0

\* Written with the atoms of the task's own residue alone assigned.
WrittenTargetOnly(res) ==
    IF HasUpdate(res) THEN {res.log.residue_index} ELSE {}

\* Lines 187-189: the residues whose atoms are assigned.
Written(res) ==
    IF HasUpdate(res) THEN {res.residues[i].index : i \in DOMAIN res.residues}
    ELSE {}

\* Lines 187-189: the coordinates after the assignments, made in list order.
Committed(res, old) ==
    [r \in Residues |->
        IF r \in Written(res)
        THEN LET last == CHOOSE i \in DOMAIN res.residues :
                            /\ res.residues[i].index = r
                            /\ \A j \in DOMAIN res.residues :
                                  res.residues[j].index = r => j <= i
             IN res.residues[last].coordinates
        ELSE old[r]]

\* optimisations with the result of the task that returned last put last.
OptimisationsLastReturnedLast ==
    IF last_returned = 0 THEN CurrentRound
    ELSE SelectSeq(CurrentRound, LAMBDA t : t # last_returned)
            \o <<last_returned>>

\* Line 183: starmap returns the results in the order of the task list it was
\* given, whatever the order the workers returned in; a result is named here
\* by its task.
optimisations == CurrentRound

\* Lines 184-189: one result of the round is logged and applied.
CommitResult ==
    /\ pc = "commit"
    /\ ci <= Len(CurrentRound)
    /\ LET t == optimisations[ci]
           res == result[t]
       IN /\ logs' = Append(logs, res.log)
          /\ coords' = Committed(res, coords)
    /\ ci' = ci + 1
    /\ pc' = IF ci = Len(CurrentRound) THEN "rounds" ELSE "commit"
    /\ UNCHANGED <<schedVars, poolVars, within6, round_no, residues_logs,
                   setupVars, taskVars,
                   historyVars>>

\* SortedLogs with the entries left in the order they were appended.
UnsortedLogs(l) == l

\* sorted(logs, key=lambda x: x['residue index']): a stable sort.
RECURSIVE SortedLogs(_)
SortedLogs(l) ==
    IF Len(l) = 0 THEN <<>>
    ELSE LET rest == SortedLogs(SubSeq(l, 1, Len(l) - 1))
             e == l[Len(l)]
             before == SelectSeq(rest,
                          LAMBDA x : x.residue_index <= e.residue_index)
             after == SelectSeq(rest,
                          LAMBDA x : x.residue_index > e.residue_index)
         IN before \o <<e>> \o after

\* Lines 196-197: after the last round the log is written.
WriteLogs ==
    /\ pc = "rounds"
    /\ round_no = Len(sorted_residues)
    /\ residues_logs' = SortedLogs(logs)
    /\ pc' = "done"
    /\ UNCHANGED <<schedVars, poolVars, coords, within6, round_no, logs, ci,
                   setupVars, taskVars,
                   historyVars>>

----------------------------------------------------------------------------
(* Specifications.                                                         *)

NoResult ==
    [log |-> [residue_index |-> 0, category |-> ""],
     has_residues |-> FALSE,
     residues |-> <<>>]

\* The state at line 270: the structure is loaded, neighbour sets and density
\* scores are computed (lines 225-267) and the three lists are initialised.  A
\* residue's own atoms lie within the search radius of its centre (line 249),
\* so it is one of its own neighbours; the others are any set of residues.
InitStructure(maxN, scores) ==
    /\ n \in 1..maxN
    /\ density \in [1..n -> scores]
    /\ \E others \in [1..n -> SUBSET (1..(n - 1))] :
          nearest = [r \in 1..n |->
                       {r} \cup {IF x < r THEN x ELSE x + 1 : x \in others[r]}]
    /\ unsorted_residues = StructureOrder(n)
    /\ already_sorted = [r \in 1..n |-> FALSE]
    /\ sorted_residues = <<>>

\* The structure is loaded and the program is at line 273.
InitSchedule(maxN, scores) ==
    /\ InitStructure(maxN, scores)
    /\ pc = "schedule"

\* The arguments were accepted, the data directory was made and the file was
\* parsed (lines 14-31, 203-225).
SetupDone ==
    /\ PDB_file = "structure"
    /\ data_dir_exists = FALSE
    /\ created = DataDirPaths

\* The single task of lines 59-156 is not looked into.
NoTask ==
    /\ near_atoms = <<>>
    /\ substructure_residues = <<>>
    /\ constrained_atom_indices = <<>>
    /\ counter_atoms = 1
    /\ added_atoms = <<>>
    /\ added_hydrogen_indices = <<>>
    /\ hydrogens_counter = 0
    /\ xtbopt = [found |-> FALSE, deviation |-> 0]
    /\ category = ""

\* Nothing has run yet: no task, no log, the coordinates of the input file.
InitRun ==
    /\ coords = [r \in 1..n |-> 0]
    /\ round_no = 0
    /\ queue = <<>>
    /\ stage = [t \in 1..n |-> "idle"]
    /\ snapshot = [t \in 1..n |-> <<>>]
    /\ substructure = [t \in 1..n |-> <<>>]
    /\ settings_file = [t \in 1..n |-> <<>>]
    /\ scratch = [i \in 1..n |-> {}]
    /\ artifact = [i \in 1..n |-> 0]
    /\ invocations = [t \in 1..n |-> <<>>]
    /\ result = [t \in 1..n |-> NoResult]
    /\ logs = <<>>
    /\ ci = 0
    /\ residues_logs = <<>>
    /\ last_returned = 0

\* The scheduler alone, on every structure of up to MaxResidues residues.
InitSched ==
    /\ InitSchedule(MaxResidues, DensityScores)
    /\ cpu = 1
    /\ within6 = {}
    /\ InitRun
    /\ SetupDone
    /\ NoTask

NextSched == SchedulePass \/ FinishSchedule

SchedSpec == InitSched /\ [][NextSched]_vars

\* The whole run, on every structure of up to MaxRunResidues residues.
Init ==
    /\ InitSchedule(MaxRunResidues, RunDensityScores)
    /\ cpu = MaxCpu
    /\ within6 \in SUBSET Pairs
    /\ InitRun
    /\ SetupDone
    /\ NoTask

Next ==
    \/ SchedulePass
    \/ FinishSchedule
    \/ StartRound /\ UNCHANGED historyVars
    \/ TaskStart
    \/ \E t \in Residues : RunXtb(t) /\ UNCHANGED historyVars
    \/ \E t \in Residues : RetryXtb(t) /\ UNCHANGED historyVars
    \/ MapReturns
    \/ CommitResult
    \/ WriteLogs

Spec == Init /\ [][Next]_vars

\* The whole run on a structure whose residues lie outside their own search
\* radius (line 249): no residue is one of its own neighbours, and a neighbour
\* set may be empty.
InitDegenerate ==
    /\ n \in 1..MaxRunResidues
    /\ density \in [1..n -> RunDensityScores]
    /\ \E others \in [1..n -> SUBSET (1..(n - 1))] :
          nearest = [r \in 1..n |->
                       {IF x < r THEN x ELSE x + 1 : x \in others[r]}]
    /\ unsorted_residues = StructureOrder(n)
    /\ already_sorted = [r \in 1..n |-> FALSE]
    /\ sorted_residues = <<>>
    /\ pc = "schedule"
    /\ cpu = MaxCpu
    /\ within6 \in SUBSET Pairs
    /\ InitRun
    /\ SetupDone
    /\ NoTask

DegenerateSpec == InitDegenerate /\ [][Next]_vars

\* The last task of the round to return, after a step of task t: t is noted
\* when the step is the return that leaves no task of the round running.
LastReturnedAfter(t) ==
    IF \A u \in Range(CurrentRound) : stage'[u] = "returned"
    THEN t ELSE last_returned

\* The whole run, the task of the round that is the last to return being
\* noted down.  The pool has MaxCpu workers: a smaller pool only takes
\* interleavings away, a run of it being a run of this one in which fewer
\* tasks are busy at a time.
NextOrder ==
    \/ SchedulePass
    \/ FinishSchedule
    \/ StartRound /\ last_returned' = 0
    \/ TaskStart
    \/ \E t \in Residues : RunXtb(t) /\ last_returned' = LastReturnedAfter(t)
    \/ \E t \in Residues : RetryXtb(t) /\ last_returned' = LastReturnedAfter(t)
    \/ MapReturns
    \/ CommitResult
    \/ WriteLogs

OrderSpec == Init /\ [][NextOrder]_vars

\* The program from its first line, on every kind of --PDB_file and --data_dir.
InitSetup ==
    /\ PDB_file \in {"missing", "no chain", "structure"}
    /\ data_dir_exists \in BOOLEAN
    /\ created = {}
    /\ InitStructure(MaxRunResidues, RunDensityScores)
    /\ pc = "args"
    /\ cpu = MaxCpu
    /\ within6 \in SUBSET Pairs
    /\ InitRun
    /\ NoTask

NextSetup ==
    \/ LoadArguments
    \/ PrepareDirectory
    \/ LoadMolecule
    \/ Next

SetupSpec == InitSetup /\ [][NextSetup]_vars

\* A near residue: its atoms, each at one of the distances.
NearResidues ==
    {[j \in DOMAIN AtomNames |->
         [name |-> AtomNames[j], atom_distance |-> d[j]]] :
       d \in [DOMAIN AtomNames -> AtomDistances]}

\* One task at line 63, on every choice of up to MaxNear near residues; the
\* rest of the program is not looked into.
InitTask ==
    /\ near_atoms \in UNION {[1..k -> NearResidues] : k \in 0..MaxNear}
    /\ substructure_residues = <<>>
    /\ constrained_atom_indices = <<>>
    /\ counter_atoms = 1
    /\ added_atoms = <<>>
    /\ added_hydrogen_indices = <<>>
    /\ hydrogens_counter = 0
    /\ xtbopt = [found |-> FALSE, deviation |-> 0]
    /\ category = ""
    /\ pc = "extract"
    /\ n = 0
    /\ density = <<>>
    /\ nearest = <<>>
    /\ unsorted_residues = <<>>
    /\ already_sorted = <<>>
    /\ sorted_residues = <<>>
    /\ cpu = 1
    /\ within6 = {}
    /\ InitRun
    /\ SetupDone

NextTask == Extract \/ Protonate \/ AddedAtom \/ Classify

TaskSpec == InitTask /\ [][NextTask]_vars

----------------------------------------------------------------------------
(* Properties of the scheduler (SchedSpec).                                *)

\* The positions <<round, place>> at which residue r stands in the plan.
Places(r) ==
    {<<k, i>> \in (DOMAIN sorted_residues) \X (1..n) :
        i \in DOMAIN sorted_residues[k] /\ sorted_residues[k][i] = r}

\* The round of r in the plan (0: not placed).
RoundOf(r) ==
    LET rounds == {k \in DOMAIN sorted_residues :
                     r \in Range(sorted_residues[k])}
    IN IF rounds = {} THEN 0 ELSE Least(rounds)

\* The neighbours of r, other than r, of strictly greater density.
DenserNeighbours(r) ==
    {m \in nearest[r] \ {r} : density[m] > density[r]}

\* C1: in the plan the scheduler built, each strictly denser neighbour of a
\* residue stands in a strictly earlier round than the residue, so no round
\* holds a residue with a denser neighbour of it; two mutual neighbours of
\* densities (5, 3) give round 1 = {residue 1}, round 2 = {residue 2}.  (A round
\* once appended is not changed, so the plan as built tells of every pass.)
C1_DenserNeighboursEarlier ==
    pc = "rounds" =>
       /\ LET round_of == [r \in Residues |-> RoundOf(r)]
          IN \A r \in Residues :
                \A m \in DenserNeighbours(r) :
                   /\ round_of[r] # 0
                   /\ round_of[m] # 0
                   /\ round_of[m] < round_of[r]
       /\ \A k \in DOMAIN sorted_residues :
             \A r \in Range(sorted_residues[k]) :
                DenserNeighbours(r) \cap Range(sorted_residues[k]) = {}
       /\ (/\ n = 2
           /\ density = <<5, 3>>
           /\ 2 \in nearest[1]
           /\ 1 \in nearest[2])
          => sorted_residues = << <<1>>, <<2>> >>

C1_Witness ==
    /\ pc = "rounds"
    /\ n = 2
    /\ density = <<5, 3>>
    /\ 2 \in nearest[1]
    /\ 1 \in nearest[2]
    /\ sorted_residues = << <<1>>, <<2>> >>

\* C2: in the plan the scheduler built every residue stands exactly once, and
\* the plan holds residues only; while it is built, no residue is both placed
\* and still to be placed.
C2_ExactlyOneRound ==
    /\ pc = "rounds" =>
          /\ \A r \in Residues : Cardinality(Places(r)) = 1
          /\ \A k \in DOMAIN sorted_residues :
                Range(sorted_residues[k]) \subseteq Residues
    /\ \A i \in DOMAIN unsorted_residues :
          \A k \in DOMAIN sorted_residues :
             unsorted_residues[i] \notin Range(sorted_residues[k])

C2_Witness ==
    /\ pc = "rounds"
    /\ n = 3
    /\ Len(sorted_residues) = 2
    /\ \A r \in Residues : Cardinality(Places(r)) = 1

\* The round the peeling gives r: one more than the latest round of its denser
\* neighbours.
RECURSIVE Level(_)
Level(r) ==
    LET below == {Level(m) : m \in DenserNeighbours(r)}
    IN IF below = {} THEN 1
       ELSE 1 + (CHOOSE x \in below : \A y \in below : y <= x)

\* C3: the loop makes at most n passes for n residues; every pass yields a
\* non-empty round, the densest of the unscheduled residues being eligible; the
\* plan is a function of the densities and the neighbour relation alone (residue
\* r stands in round Level(r)), each round in ascending residue order.
C3_TerminatesDeterministic ==
    /\ Len(sorted_residues) <= n
    /\ \A k \in DOMAIN sorted_residues : Len(sorted_residues[k]) > 0
    /\ Len(unsorted_residues) > 0 =>
          /\ Len(RoundResidues) > 0
          /\ \A r \in Range(unsorted_residues) :
                (\A u \in Range(unsorted_residues) : density[u] <= density[r])
                   => r \in Range(RoundResidues)
    /\ \A k \in DOMAIN sorted_residues :
          \A i, j \in DOMAIN sorted_residues[k] :
             i < j => sorted_residues[k][i] < sorted_residues[k][j]
    /\ pc = "rounds" =>
          LET level == [r \in Residues |-> Level(r)]
          IN /\ \A r \in Residues : RoundOf(r) = level[r]
             /\ \A k \in DOMAIN sorted_residues :
                   sorted_residues[k] =
                      SortedSeq({r \in Residues : level[r] = k})

C3_Witness ==
    /\ pc = "rounds"
    /\ n = 3
    /\ Len(sorted_residues) = n
    /\ sorted_residues[1] = <<3>>

----------------------------------------------------------------------------
(* Properties of the run (Spec).                                           *)

\* A task for t has been built and handed to the pool.
Constructed(t) == stage[t] # "idle"

\* A worker has started the task for t (it may have returned since).
Started(t) == stage[t] \in {"xtb", "retry", "returned"}

\* The result of t has been through the commit loop (lines 184-189): its log is
\* appended in the same iteration that assigns its coordinates.
Logged(t) == \E i \in DOMAIN logs : logs[i].residue_index = t

\* The tasks of rounds 1..k in the order of their round lists.
RECURSIVE TaskOrder(_)
TaskOrder(k) ==
    IF k <= 0 THEN <<>> ELSE TaskOrder(k - 1) \o sorted_residues[k]

\* The coordinates after the results of the tasks of order are applied, in
\* that order, to the input's coordinates.
RECURSIVE Applied(_)
Applied(order) ==
    IF Len(order) = 0 THEN [r \in Residues |-> 0]
    ELSE Committed(result[order[Len(order)]],
                   Applied(SubSeq(order, 1, Len(order) - 1)))

\* The tasks whose results the commit loop has been through, in that order.
CommittedOrder == [i \in DOMAIN logs |-> logs[i].residue_index]

\* C4: no task is built of a round later than the one the run is at, and every
\* task of every earlier round has then returned and its result has been
\* committed; while the pool runs a round, the Structure holds all the updates
\* of the earlier rounds; the commit loop runs only when no task does.
C4_RoundBarrier ==
    LET round_of == [r \in Residues |-> RoundOf(r)]
        earlier == {u \in Residues :
                      round_of[u] # 0 /\ round_of[u] < round_no}
    IN /\ \A t \in Residues :
             Constructed(t) => round_of[t] # 0 /\ round_of[t] <= round_no
       /\ \A u \in earlier : stage[u] = "returned" /\ Logged(u)
       /\ pc = "map" =>
             \A u \in earlier :
                \A m \in Written(result[u]) :
                   /\ coords[m] # 0
                   /\ m \in Written(result[coords[m]])
                   /\ coords[m] \in earlier
       /\ pc \in {"commit", "rounds", "done"} =>
             \A t \in Residues : stage[t] \in {"idle", "returned"}

\* A task of the second round runs after a first round whose update was
\* committed.
C4_Witness ==
    /\ pc = "map"
    /\ round_no = 2
    /\ \E t \in Residues : stage[t] \in {"xtb", "retry"}
    /\ \E u \in Residues : RoundOf(u) = 1 /\ Written(result[u]) # {}

\* C5: while the tasks of a round run the Structure is not written: it is what
\* the commits of the earlier rounds left; every task started works on exactly
\* that pre-round state, also for the residues other tasks of its round return.
C5_PreRoundSnapshot ==
    /\ coords = Applied(CommittedOrder)
    /\ pc = "map" => CommittedOrder = TaskOrder(round_no - 1)
    /\ \A t \in Residues :
          Started(t) => snapshot[t] = Applied(TaskOrder(RoundOf(t) - 1))

\* A task runs on its snapshot while another task of its round has already
\* returned new coordinates for the residue it is the task of.
C5_Witness ==
    /\ pc = "map"
    /\ \E t, u \in Residues :
          /\ t # u
          /\ RoundOf(t) = RoundOf(u)
          /\ stage[t] = "xtb"
          /\ stage[u] = "returned"
          /\ t \in Written(result[u])
          /\ snapshot[t][t] # u
          /\ coords[t] # u

\* The residues of the payload a task returned.
PayloadResidues(t) ==
    {result[t].residues[i].index : i \in DOMAIN result[t].residues}

\* C6: two distinct tasks of the same round never both return coordinates for
\* the same residue.
C6_DisjointPayloads ==
    \A t, u \in Residues :
        (/\ t # u
         /\ RoundOf(t) # 0
         /\ RoundOf(t) = RoundOf(u)
         /\ stage[t] = "returned"
         /\ stage[u] = "returned")
        => PayloadResidues(t) \cap PayloadResidues(u) = {}

\* C7 as stated: a residue whose coordinates an earlier round committed is in no
\* later task's substructure, and no later round's commit assigns it again.
C7_NeverReExtracted ==
    /\ \A t \in Residues :
          Started(t) =>
             \A m \in Range(substructure[t]) : snapshot[t][m] = 0
    /\ (pc = "commit" /\ ci <= Len(CurrentRound)) =>
          \A m \in Written(result[CurrentRound[ci]]) :
             coords[m] = 0 \/ RoundOf(coords[m]) = round_no

\* C7, amended: a residue whose own task was committed is never again the
\* target of a task; the residues a later task re-extracts and re-writes are
\* members of its substructure that it is not the task of.
C7_TargetOnce ==
    /\ \A t \in Residues :
          stage[t] \in {"queued", "xtb", "retry"} => ~Logged(t)
    /\ \A t \in Residues :
          Cardinality({i \in DOMAIN logs : logs[i].residue_index = t}) <= 1

\* A task of a later round has in its substructure a residue whose own task
\* was committed, with an update, in an earlier round.
C7_Witness ==
    \E t, m \in Residues :
        /\ stage[t] = "xtb"
        /\ m # t
        /\ m \in Range(substructure[t])
        /\ Logged(m)
        /\ snapshot[t][m] = m

\* The settings text of lines 111-120 written out with a given engine.
SettingsWithEngine(members, engine) ==
    ConstrainHead \o AtomsText(members) \o ConstrainToEngine \o engine
    \o OptTail

\* C8: xtb runs at most twice per task; the first run reads engine rf; there is
\* a second run exactly when xtbopt.pdb is absent after the first, on the same
\* settings with the engine lbfgs; without the artifact after the second run
\* the task returns the category of a residue not optimised and no residues.
C8_TwoTierRetry ==
    \A t \in Residues :
        /\ Len(invocations[t]) <= 2
        /\ Len(invocations[t]) >= 1 =>
              /\ invocations[t][1].engine = Rf
              /\ stage[t] \in {"retry", "returned"}
        /\ stage[t] = "retry" =>
              Len(invocations[t]) = 1 /\ ~invocations[t][1].found
        /\ stage[t] = "returned" =>
              /\ Len(invocations[t]) \in {1, 2}
              /\ Len(invocations[t]) = 2 <=> ~invocations[t][1].found
        /\ Len(invocations[t]) = 2 => invocations[t][2].engine = Lbfgs
        /\ (Started(t) /\ (Len(invocations[t]) = 0 \/ invocations[t][1].found)) =>
              settings_file[t] = SettingsWithEngine(substructure[t], Rf)
        /\ (Len(invocations[t]) >= 1 /\ ~invocations[t][1].found) =>
              settings_file[t] = SettingsWithEngine(substructure[t], Lbfgs)
        /\ (stage[t] = "returned" /\ ~invocations[t][Len(invocations[t])].found) =>
              /\ Len(invocations[t]) = 2
              /\ result[t].log.category = "Not optimised residue"
              /\ ~HasUpdate(result[t])
        /\ (stage[t] = "returned" /\ invocations[t][Len(invocations[t])].found) =>
              result[t].log.category = "Optimised residue"

\* One task returned after two runs without an artifact, another after a
\* second run that produced it.
C8_Witness ==
    \E t, u \in Residues :
        /\ stage[t] = "returned"
        /\ Len(invocations[t]) = 2
        /\ ~invocations[t][2].found
        /\ stage[u] = "returned"
        /\ Len(invocations[u]) = 2
        /\ invocations[u][2].found

\* Neither run of xtb for t left an artifact.
NeverProduced(t) ==
    /\ stage[t] = "returned"
    /\ \A i \in DOMAIN invocations[t] : ~invocations[t][i].found

\* The entries of the written log for residue r.
LogEntries(r) ==
    {i \in DOMAIN residues_logs : residues_logs[i].residue_index = r}

\* The written log has for r an entry of the category of a residue not
\* optimised, with no residual in it.
LoggedNotOptimised(r) ==
    \E i \in LogEntries(r) :
        /\ residues_logs[i].category = "Not optimised residue"
        /\ "residual" \notin DOMAIN residues_logs[i]

\* C9 as stated: a residue whose task never got an artifact is logged as not
\* optimised, with no residual, and its final coordinates are the input's.
C9_FailedKeepsInput ==
    pc = "done" =>
       \A r \in Residues :
          NeverProduced(r) => LoggedNotOptimised(r) /\ coords[r] = 0

\* The tasks that returned an update holding residue r.
UpdatersOf(r) == {t \in Residues : r \in Written(result[t])}

\* C9, amended: such a residue is logged as not optimised, with no residual,
\* and its own task assigns no coordinates; its final coordinates are the
\* input's unless a task of another residue that got its artifact has it in its
\* substructure, and then they are those a task of that kind returned.
C9_FailedKeepsInputUnlessMember ==
    pc = "done" =>
       \A r \in Residues :
          NeverProduced(r) =>
             /\ LoggedNotOptimised(r)
             /\ Written(result[r]) = {}
             /\ coords[r] # r
             /\ UpdatersOf(r) = {} => coords[r] = 0
             /\ UpdatersOf(r) # {} => coords[r] \in UpdatersOf(r)

\* The run is over; the task of a residue never got an artifact and the
\* residue's coordinates were rewritten by the task of a neighbour.
C9_Witness ==
    /\ pc = "done"
    /\ \E r \in Residues :
          NeverProduced(r) /\ coords[r] # 0 /\ LoggedNotOptimised(r)

\* C10: when the run is over the written log has exactly one entry per residue,
\* in ascending residue order, whichever tasks failed; no failure stops the
\* run: a task that got no artifact still returns, the pool always has a task
\* running, one to start or all of them returned, and the commit loop goes
\* through a result without residues as through any other.
C10_CompleteSortedLog ==
    /\ pc = "done" =>
          /\ Len(residues_logs) = n
          /\ \A i \in DOMAIN residues_logs : residues_logs[i].residue_index = i
          /\ \A r \in Residues :
                residues_logs[r].category =
                   IF NeverProduced(r) THEN "Not optimised residue"
                   ELSE "Optimised residue"
    /\ \A t \in Residues :
          (stage[t] = "returned" /\ ~invocations[t][Len(invocations[t])].found) =>
             result[t].log.residue_index = t
    /\ pc = "map" =>
          \/ Busy # {}
          \/ Len(queue) > 0 /\ Cardinality(Busy) < cpu
          \/ PoolDone
    /\ pc = "commit" => ENABLED CommitResult

\* The run is over; the log was appended out of residue order, with a failed
\* task and a successful one.
C10_Witness ==
    /\ pc = "done"
    /\ n = 2
    /\ logs[1].residue_index = 2
    /\ \E r \in Residues : NeverProduced(r)
    /\ \E r \in Residues : ~NeverProduced(r)
    /\ Len(residues_logs) = 2

----------------------------------------------------------------------------
(* Properties of the setup (SetupSpec).                                    *)

\* C16: when the process has exited on a setup error, it has made no path
\* under the data directory and no task has been built or started.
C16_SetupErrorLeavesNothing ==
    pc = "exit" =>
       /\ created = {}
       /\ \A t \in Residues : stage[t] = "idle"

----------------------------------------------------------------------------
(* Properties of the single task (TaskSpec).                               *)

\* The category as the three-valued rule gives it: by the artifact, and by the
\* deviation of the target above 1.0 (10 tenths).
CategoryByDeviation(found, deviation) ==
    IF ~found THEN "Not optimised residue"
    ELSE IF deviation > 10 THEN "Highly optimised residue"
    ELSE "Optimised residue"

\* C11: the category of a task is the one for no result when xtb left none,
\* the one for a high deviation when there is a result and the target deviates
\* by more than 1.0 (as 1.5), and the plain one when there is a result and the
\* deviation is at most 1.0 (as 0.3).
C11_ThreeCategories ==
    pc = "logged" =>
       category = CategoryByDeviation(xtbopt.found, xtbopt.deviation)

\* The atoms of the member residues before the i-th member: the atoms of the
\* fragment that stand before its atoms.
RECURSIVE AtomsBefore(_)
AtomsBefore(i) ==
    IF i <= 1 THEN 0
    ELSE AtomsBefore(i - 1)
         + Len(near_atoms[substructure_residues[i - 1].index])

\* C12: for every atom of every member residue, its position in the fragment
\* is among the constrained indices, and the atom among the member's
\* constrained atoms, exactly when it is a CA or further than 4 from the
\* target; no index is recorded twice and none outside the fragment.
C12_ConstrainedPartition ==
    pc # "extract" =>
       /\ \A i \in DOMAIN substructure_residues :
             LET member == substructure_residues[i]
                 atoms == near_atoms[member.index]
             IN /\ \A j \in DOMAIN atoms :
                      LET held == \/ atoms[j].name = "CA"
                                  \/ atoms[j].atom_distance > FreeCutoff
                      IN /\ (AtomsBefore(i) + j)
                               \in Range(constrained_atom_indices) <=> held
                         /\ atoms[j] \in Range(member.constrained_atoms)
                               <=> held
                /\ Len(member.constrained_atoms)
                      = Cardinality(Range(member.constrained_atoms))
       /\ \A a, b \in DOMAIN constrained_atom_indices :
             a < b => constrained_atom_indices[a] < constrained_atom_indices[b]
       /\ Range(constrained_atom_indices)
             \subseteq 1..AtomsBefore(Len(substructure_residues) + 1)
       /\ counter_atoms = AtomsBefore(Len(substructure_residues) + 1) + 1

\* A near residue out of reach stands before a member: the member's CA, at
\* distance 4, is held by its name and has index 1, its other atom is free.
C12_Witness ==
    /\ pc = "protonate"
    /\ Len(near_atoms) = 2
    /\ AbsoluteMinDistance(near_atoms[1]) = MemberCutoff
    /\ near_atoms[2][1].atom_distance = FreeCutoff
    /\ near_atoms[2][2].atom_distance = FreeCutoff
    /\ constrained_atom_indices = <<1>>
    /\ Len(substructure_residues) = 1

\* The peptide bond of member residue i is severed: a residue next to it in
\* the chain is not in the fragment.  The chain is the near residues, in
\* their order.
Severed(i) ==
    LET members == {substructure_residues[k].index :
                      k \in DOMAIN substructure_residues}
    IN \E next \in {i - 1, i + 1} :
          next \in DOMAIN near_atoms /\ next \notin members

\* C13: an added atom is kept exactly when it is closer than 1.1 to C or N of
\* a residue whose peptide bond the extraction severed; each one kept gets the
\* next index after the fragment's atoms, and the index is in the list that
\* goes to the constraint.
C13_CapsOnlySeveredBonds ==
    pc \in {"added", "logged"} =>
       /\ \A k \in DOMAIN added_atoms :
             added_atoms[k].written <=>
                /\ Severed(added_atoms[k].line.res_i)
                /\ \/ added_atoms[k].line.c_dist < BondCutoff
                   \/ added_atoms[k].line.n_dist < BondCutoff
       /\ added_hydrogen_indices =
             [k \in 1..Cardinality({i \in DOMAIN added_atoms :
                                      added_atoms[i].written}) |->
                 counter_atoms - 1 + k]

----------------------------------------------------------------------------
(* Properties of the run on degenerate geometry (DegenerateSpec).          *)

\* C14: for a task whose extraction took no residue, xtb is not run, and the
\* task returns as one not optimised.
C14_NoMembersNoOptimizer ==
    \A t \in Residues :
        (Started(t) /\ Len(substructure[t]) = 0) =>
           /\ Len(invocations[t]) = 0
           /\ stage[t] = "returned" =>
                 result[t].log.category = "Not optimised residue"

\* No residue has a neighbour.
AllIsolated == \A r \in Residues : nearest[r] = {}

\* The scheduler has built its plan.
PlanBuilt == pc \in {"rounds", "map", "commit", "done"}

----------------------------------------------------------------------------
(* Properties of the scratch directories (Spec).                           *)

\* The directories a task has worked in.
DirsOf(t) == {d \in DOMAIN scratch : t \in scratch[d]}

\* C17: a scratch directory is used by at most one task over the whole run,
\* directory sub_<i> by the task of residue i alone and by it as soon as it
\* has started; an xtbopt.pdb lying in a directory was written by an xtb run
\* of the one task using it, and whenever a task's test found the file, the
\* file in its directory is its own.
C17_ExclusiveScratch ==
    /\ \A d \in DOMAIN scratch : scratch[d] \subseteq {d}
    /\ \A t \in Residues : Started(t) <=> DirsOf(t) = {t}
    /\ \A d \in DOMAIN artifact :
          artifact[d] # 0 =>
             /\ scratch[d] = {artifact[d]}
             /\ \E i \in DOMAIN invocations[artifact[d]] :
                   invocations[artifact[d]][i].found
    /\ \A t \in Residues :
          (\E i \in DOMAIN invocations[t] : invocations[t][i].found) =>
             \A d \in DirsOf(t) : artifact[d] = t

\* Two tasks have worked, each in its own directory, and the second found the
\* artifact of its own xtb run after the first had left one in its directory.
C17_Witness ==
    /\ n >= 2
    /\ \E t, u \in Residues :
          /\ t # u
          /\ scratch[t] = {t} /\ scratch[u] = {u}
          /\ artifact[t] = t /\ artifact[u] = u
          /\ stage[t] = "returned" /\ stage[u] = "returned"

----------------------------------------------------------------------------
(* The passes of the scheduler, one by one (SchedSpec).                    *)

\* C18: in the plan as built, round k holds exactly the residues that were
\* unscheduled when pass k began and had, at that moment, no unscheduled
\* neighbour other than themselves of strictly greater density; so two
\* neighbours of equal density, both unscheduled at the start of a pass with
\* every denser neighbour of either scheduled, stand together in its round.
C18_GreedyAtPassStart ==
    pc = "rounds" =>
       LET round_of == [r \in Residues |-> RoundOf(r)]
           denser == [r \in Residues |-> DenserNeighbours(r)]
           Free(r, k) == \A m \in denser[r] : round_of[m] < k
       IN /\ \A k \in DOMAIN sorted_residues :
                Range(sorted_residues[k]) =
                   {r \in Residues : round_of[r] >= k /\ Free(r, k)}
          /\ \A r \in Residues :
                \A m \in nearest[r] \ {r} :
                   density[m] = density[r] =>
                      \A k \in DOMAIN sorted_residues :
                         (/\ round_of[r] >= k
                          /\ round_of[m] >= k
                          /\ Free(r, k)
                          /\ Free(m, k)) =>
                            round_of[r] = k /\ round_of[m] = k

\* Two neighbours of equal density stand together in round 2, a denser
\* neighbour of both in round 1.
C18_Witness ==
    /\ pc = "rounds"
    /\ \E r, m, d \in Residues :
          /\ r # m
          /\ m \in nearest[r]
          /\ density[m] = density[r]
          /\ d \in nearest[r] /\ d \in nearest[m]
          /\ density[d] > density[r]
          /\ RoundOf(d) = 1
          /\ RoundOf(r) = 2
          /\ RoundOf(m) = 2

----------------------------------------------------------------------------
(* The effect of the commit loop on the coordinates (Spec).                *)

\* The last xtb run of task t left it with an artifact.
Succeeded(t) ==
    /\ Len(invocations[t]) > 0
    /\ invocations[t][Len(invocations[t])].found

\* The places of the commit order whose task got an artifact for a
\* substructure holding residue r.
CommitsOn(r) ==
    {i \in DOMAIN logs :
        /\ Succeeded(logs[i].residue_index)
        /\ r \in Range(substructure[logs[i].residue_index])}

\* C19: the commit of a task that got its artifact assigns the coordinates of
\* every residue of its substructure and of no other residue, and the commit
\* of a task that got none assigns nothing: at any moment the coordinates of a
\* residue are those returned by the last task committed so far that got an
\* artifact and has the residue in its substructure, and the input's when
\* there is no such task.
C19_CommitFrame ==
    \A r \in Residues :
        LET commits == CommitsOn(r)
        IN coords[r] =
              IF commits = {} THEN 0
              ELSE logs[CHOOSE i \in commits : \A j \in commits : j <= i]
                      .residue_index

\* A task with two residues in its substructure got its artifact and was
\* committed, and both residues have its coordinates; the task committed after
\* it got no artifact and changed neither.
C19_Witness ==
    /\ Len(logs) = 2
    /\ Succeeded(logs[1].residue_index)
    /\ ~Succeeded(logs[2].residue_index)
    /\ Len(substructure[logs[1].residue_index]) = 2
    /\ Len(substructure[logs[2].residue_index]) = 2
    /\ \A r \in Residues : coords[r] = logs[1].residue_index

----------------------------------------------------------------------------
(* The commit and the order in which the workers return (OrderSpec).       *)

\* C20: whenever a round has been committed, and when the run is over, the
\* log and the Structure are what the plan and the results of the tasks make
\* them, whatever the order the workers returned in and whatever the pool
\* size: the log holds the tasks in the order of the round lists, the
\* coordinates of a residue are those of the last task in that order that got
\* an artifact and has the residue in its substructure (so of two tasks of a
\* round the one later in the list wins), and the written log has the entry of
\* residue i at place i.
C20_ListOrderWins ==
    pc \in {"rounds", "done"} =>
       LET order == TaskOrder(round_no)
           succeeded == [t \in Residues |-> Succeeded(t)]
       IN /\ CommittedOrder = order
          /\ \A r \in Residues :
                LET on == {i \in DOMAIN order :
                             /\ succeeded[order[i]]
                             /\ r \in Range(substructure[order[i]])}
                IN coords[r] =
                      IF on = {} THEN 0
                      ELSE order[CHOOSE i \in on : \A j \in on : j <= i]
          /\ pc = "done" =>
                residues_logs =
                   [i \in Residues |->
                      [residue_index |-> i,
                       category |-> IF succeeded[i]
                                    THEN "Optimised residue"
                                    ELSE "Not optimised residue"]]

\* The run is over; of two tasks of the last round that both got an artifact
\* and share a residue, the one earlier in the list returned last, and the
\* residue has the coordinates of the later one.
C20_Witness ==
    /\ pc = "done"
    /\ \E i, j \in DOMAIN CurrentRound :
          LET t == CurrentRound[i]
              u == CurrentRound[j]
          IN /\ i < j
             /\ last_returned = t
             /\ Succeeded(t) /\ Succeeded(u)
             /\ \E r \in Range(substructure[t]) \cap Range(substructure[u]) :
                   coords[r] = u

====
